---- MODULE Spec2Model ----
(***************************************************************************)
(* A model of the babysitter of internal/babysitter/babysitter.go: the     *)
(* group registry, the spawn of a co-location group, the callbacks of the  *)
(* envelope handler and the routing algorithm.                             *)
(*                                                                         *)
(* Addresses are modelled as the integers 1..MaxAddr: address i stands for *)
(* the i-th string of a list of distinct strings in byte-lexicographic     *)
(* order, so that sort.Strings is the ascending sort of the integers.      *)
(* A uint64 key is the sequence of its bits, lowest first.                 *)
(***************************************************************************)
EXTENDS Integers, Sequences, FiniteSets, Bags, TLC

\* ------------------------------------------------------------ constants

\* const DefaultReplication = 2
DefaultReplication == 2

\* The width of a slice key (uint64) and of a float64 significand.
KeyBits == 64
MantissaBits == 53

\* ------------------------------------------------------------ bounds

MaxAddr == 2
MaxCalls == 3
MaxVersion == 1

\* The longest list of candidates routingAlgo is called with on its own; at
\* least MaxAddr.
MaxCandidates == 5

\* The most requests in flight at one proxy.
MaxInflight == 1

\* ------------------------------------------------------------ uint64

\* A key is the sequence of its KeyBits bits, lowest first: k[p] is the bit
\* of weight 2^(p - 1).
minSliceKey == [p \in 1..KeyBits |-> 0] \o <<>>
maxSliceKey == [p \in 1..KeyBits |-> 1] \o <<>>

\* There is a borrow out of the j lowest bits of a - b: some bit at or below
\* j has a[g] < b[g] and every bit above it, up to j, passes the borrow on.
Borrow(a, b, j) ==
    \E g \in 1..j :
        /\ a[g] < b[g]
        /\ \A k \in (g + 1)..j : a[k] <= b[k]

\* a - b on uint64 (wrapping).
KeySub(a, b) ==
    [p \in 1..KeyBits |->
        (a[p] - b[p] - (IF Borrow(a, b, p - 1) THEN 1 ELSE 0) + 2) % 2] \o <<>>

\* There is a carry out of the j lowest bits of a + b.
Carry(a, b, j) ==
    \E g \in 1..j :
        /\ a[g] + b[g] = 2
        /\ \A k \in (g + 1)..j : a[k] + b[k] >= 1

\* a + b on uint64 (wrapping).
KeyAdd(a, b) ==
    [p \in 1..KeyBits |->
        (a[p] + b[p] + (IF Carry(a, b, p - 1) THEN 1 ELSE 0)) % 2] \o <<>>

\* a < b on uint64.
KeyLess(a, b) ==
    \E hi \in 1..KeyBits :
        /\ a[hi] < b[hi]
        /\ \A above \in (hi + 1)..KeyBits : a[above] = b[above]

KeyLeq(a, b) == a = b \/ KeyLess(a, b)

\* The position of the highest set bit of x, 0 when x = 0.
HighBit(x) ==
    LET set == {e \in 1..Len(x) : x[e] = 1}
    IN  IF set = {} THEN 0 ELSE CHOOSE e \in set : \A lower \in set : lower <= e

\* A conversion that keeps every bit of x.
Float64Exact(x) == x \o <<0>>

\* float64(x) for a uint64 x: the nearest value with a MantissaBits-bit
\* significand, ties to even. The result is an integer of at most
\* 2^KeyBits, given as KeyBits + 1 bits. s is the number of low bits that
\* do not fit the significand.
Float64(x) ==
    LET s == HighBit(x) - MantissaBits
        wide == x \o <<0>>
        trunc == [p \in 1..(KeyBits + 1) |-> IF p > s THEN wide[p] ELSE 0] \o <<>>
        roundUp == /\ x[s] = 1
                   /\ \/ x[s + 1] = 1
                      \/ \E below \in 1..(s - 1) : x[below] = 1
        unit == [p \in 1..(KeyBits + 1) |-> IF p = s + 1 THEN 1 ELSE 0] \o <<>>
    IN  IF s <= 0 THEN wide
        ELSE IF roundUp
             THEN [p \in 1..(KeyBits + 1) |->
                     (trunc[p] + unit[p]
                        + (IF Carry(trunc, unit, p - 1) THEN 1 ELSE 0)) % 2] \o <<>>
             ELSE trunc

\* uint64(math.Floor(0.5*float64(x))): halving a float64 is exact, and the
\* floor of half an integer drops its lowest bit.
HalfFloor(x) == Tail(Float64(x))

\* The left end of the range taken for its middle.
MidPointLow(lo, hi) == lo

\* midPoint := curr[0] + uint64(math.Floor(0.5*float64(curr[1]-curr[0])))
MidPoint(lo, hi) == KeyAdd(lo, HalfFloor(KeySub(hi, lo)))

\* ------------------------------------------------------------ routing

\* sort.Strings(candidates): the ascending sort, by insertion.
RECURSIVE InsertSorted(_, _)
InsertSorted(a, s) ==
    IF s = <<>> THEN <<a>>
    ELSE IF a <= Head(s) THEN <<a>> \o s
         ELSE <<Head(s)>> \o InsertSorted(a, Tail(s))

RECURSIVE SortStrings(_)
SortStrings(s) ==
    IF s = <<>> THEN <<>>
    ELSE InsertSorted(Head(s), SortStrings(Tail(s)))

\* x & y on non-negative ints.
RECURSIVE BitAnd(_, _)
BitAnd(x, y) ==
    IF x = 0 \/ y = 0 THEN 0
    ELSE (x % 2) * (y % 2) + 2 * BitAnd(x \div 2, y \div 2)

\* math.Ceil(math.Log2(float64(x))) for x >= 1.
RECURSIVE CeilLog2(_)
CeilLog2(x) == IF x <= 1 THEN 0 ELSE 1 + CeilLog2((x + 1) \div 2)

RECURSIVE Pow2(_)
Pow2(k) == IF k = 0 THEN 1 ELSE 2 * Pow2(k - 1)

\* The number is returned as it is.
NextPowerOfTwoSame(x) == x

\* nextPowerOfTwo returns the next power of 2 that is greater or equal to x.
nextPowerOfTwo(x) ==
    IF BitAnd(x, x - 1) = 0 THEN x ELSE Pow2(CeilLog2(x))

\* A pass that splits the range it has just made: the halves go to the
\* front of the queue.
SplitStepDepthFirst(splits) ==
    LET curr == Head(splits)
        midPoint == KeyAdd(curr[1], HalfFloor(KeySub(curr[2], curr[1])))
    IN  << <<curr[1], midPoint>>, <<midPoint, curr[2]>> >> \o Tail(splits)

\* One pass of the splitting loop: the first range is taken off the queue
\* and its two halves are appended.
SplitStep(splits) ==
    LET curr == Head(splits)
        midPoint == MidPoint(curr[1], curr[2])
    IN  Tail(splits) \o << <<curr[1], midPoint>>, <<midPoint, curr[2]>> >>

\* for ok := true; ok; ok = len(splits) != numSlices { ... }
RECURSIVE SplitLoop(_, _)
SplitLoop(splits, numSlices) ==
    LET next == SplitStep(splits)
    IN  IF Len(next) # numSlices THEN SplitLoop(next, numSlices) ELSE next

\* sort.Slice(splits, ...) by start key.
RECURSIVE InsertSplit(_, _)
InsertSplit(a, s) ==
    IF s = <<>> THEN <<a>>
    ELSE IF KeyLeq(a[1], Head(s)[1]) THEN <<a>> \o s
         ELSE <<Head(s)>> \o InsertSplit(a, Tail(s))

RECURSIVE SortSplits(_)
SortSplits(s) ==
    IF s = <<>> THEN <<>>
    ELSE InsertSplit(Head(s), SortSplits(Tail(s)))

\* The ranges routingAlgo computes for n >= 2 candidates, sorted by start
\* key: they depend on the number of candidates alone, and are tabulated
\* for the numbers of candidates the model reaches.
SplitsOf(n) ==
    LET numSlices == nextPowerOfTwo(n)
    IN  SortSplits(SplitLoop(<< <<minSliceKey, maxSliceKey>> >>, numSlices))

SortedSplits ==
    [n \in 1..MaxCandidates |-> IF n = 1 THEN <<>> ELSE SplitsOf(n)] \o <<>>

\* The slices routingAlgo computes for the candidates as sorted.
SlicesFor(sorted) ==
    IF Len(sorted) = 0 THEN <<>>
    ELSE IF Len(sorted) = 1
    THEN << [start |-> minSliceKey, replicas |-> sorted] >>
    ELSE LET splits == SortedSplits[Len(sorted)]
         IN  [n \in 1..Len(splits) |->
                [start |-> splits[n][1],
                 replicas |-> << sorted[((n - 1) % Len(sorted)) + 1] >>]]

\* The candidates are left in the order they came in.
CandidatesUnsorted(candidates) == candidates

\* What sort.Strings(candidates) leaves in the caller's slice: routingAlgo
\* sorts its argument in place.
CandidatesAfter(candidates) == SortStrings(candidates)

\* The new assignment keeps the version of the one it was cloned from.
RoutingAlgoSameVersion(currAssignment, candidates) ==
    [component |-> currAssignment.component,
     version |-> currAssignment.version,
     slices |-> SlicesFor(SortStrings(candidates))]

\* routingAlgo(currAssignment, candidates): the new assignment.
routingAlgo(currAssignment, candidates) ==
    [component |-> currAssignment.component,
     version |-> currAssignment.version + 1,
     slices |-> SlicesFor(CandidatesAfter(candidates))]

\* ------------------------------------------------------------ state

NumThreads == 2

Threads == 1..NumThreads
GroupNames == {"g1"}
ComponentNames == {"c1", "c2", "c3"}
ListenerNames == {"l1", "l2"}
Addresses == 1..MaxAddr

\* The components of the application that are routed: req.IsRouted is a
\* property of the component.
Routed == {"c1", "c2"}

\* The pid of the worker that listens on an address.
PidOf(address) == [a \in Addresses |-> 99 + a][address]
Versions == 0..MaxVersion

\* No thread: the value of a free lock.
Free == 0

\* versioned.Version(val): the version of a fresh cell.
InitialVersion == 0

VARIABLES
    groups,             \* b.groups: the group record stored under each name
    components,         \* g.components.Val, by group: the started components
    componentsVersion,  \* the version of g.components
    routing,            \* g.routing.Val: [replicas, assignments]
    routingVersion,     \* the version of g.routing
    routingLock,        \* the thread holding g.routing's write lock, or Free
    mu,                 \* the thread holding g.mu, or Free
    envelopes,          \* g.envelopes: the worker handles, in spawn order
    pids,               \* g.pids
    nextEnvelope,       \* the number of envelopes constructed so far
    pc,                 \* each thread's position
    req,                \* each thread's current (or last) request
    ret,                \* each thread's last reply
    r,                  \* each thread's loop variable in startColocationGroup
    calls,              \* the number of calls made so far
    passed,             \* history: the addresses passed to RegisterReplica
    routedStarted,      \* history: the components recorded by a routed call
    spawned,            \* history: a start of the group has returned nil
    cancelled,          \* b.ctx is done
    bmu,                \* the thread holding b.mu, or Free
    proxies,            \* b.proxies, by listener name
    acceptors,          \* the accept loops started (go serveHTTP), in order
    lis,                \* each thread's result of net.Listen
    locals,             \* each thread's locals in Status, Metrics and Profile
    out,                \* each thread's result of Status, Metrics or Profile
    exited,             \* the envelopes whose Run has returned
    stopped,            \* the listeners whose serveHTTP has returned
    inflight,           \* the requests in flight at each listener's proxy
    candidates,         \* routingAlgo: the caller's slice of candidates
    currAssignment,     \* routingAlgo: the assignment passed in
    newAssignment,      \* routingAlgo: the assignment returned
    routingInfo,        \* a routing info that replicas register with
    order               \* history: the addresses registered with it, in order

cells == <<components, componentsVersion, routing, routingVersion, routingLock>>
workers == <<mu, envelopes, pids, nextEnvelope>>
threads == <<pc, req, ret, r, calls>>
history == <<passed, routedStarted, spawned>>
supervisor == <<cancelled, bmu, proxies, acceptors, lis>>
facade == <<locals, out>>
tasks == <<exited, stopped, inflight>>
algo == <<candidates, currAssignment, newAssignment, routingInfo, order>>
babysitter ==
    <<groups, cells, workers, threads, history, supervisor, facade, tasks>>
vars ==
    <<groups, cells, workers, threads, history, supervisor, facade, tasks, algo>>

\* A request: address is req.Address of a replica to register and
\* req.Listener.Addr of a listener to export; g is the record that b.group
\* returned to the callback, 0 in a callback that does not call it.
NoRequest ==
    [op |-> "none", group |-> "", component |-> "", isRouted |-> FALSE,
     address |-> 0, pid |-> 0, version |-> 0, listener |-> "",
     localAddress |-> 0, g |-> 0]

Request(op, g, c, isRouted, a, pid, v) ==
    [NoRequest EXCEPT !.op = op, !.group = g, !.component = c,
                      !.isRouted = isRouted, !.address = a, !.pid = pid,
                      !.version = v]

\* A reply: status is "none" (no reply yet), "nil" (no error) or "err";
\* proxyAddress and error are the fields of an ExportListenerReply.
NoReply ==
    [status |-> "none", version |-> 0, replicas |-> <<>>,
     assignments |-> <<>>, components |-> {}, proxyAddress |-> 0,
     error |-> ""]

Nil == [NoReply EXCEPT !.status = "nil"]
Err == [NoReply EXCEPT !.status = "err"]

Range(s) == {s[i] : i \in DOMAIN s}

\* No call of net.Listen made: err is "" (nil), "inuse" (EADDRINUSE) or
\* "fault" (any other error), addr the address of the listener.
NoListen == [err |-> "", addr |-> 0]

\* An assignment with no component: the value of the routingAlgo variables
\* while the function is not under test.
NoAssignment == [component |-> "", version |-> 0, slices |-> <<>>]

\* &protos.RoutingInfo{}
NoRoutingInfo == [replicas |-> <<>>, assignments |-> <<>>]

\* The locals of Status, readMetrics and Profile, none in use: stats is
\* the result of GetStatsStatusz, todo the groups of allGroups still to
\* visit, group the one being visited, i the index of the loop over its
\* envelopes; cs, pids and envelopes are the copies taken of the component
\* names, the pids and the envelopes of the groups visited, by group.
NoLocal ==
    [stats |-> <<>>, todo |-> {}, group |-> "", i |-> 0, cs |-> <<>>,
     pids |-> <<>>, envelopes |-> <<>>]

\* What Status, readMetrics or Profile has assembled, nothing yet: the
\* components and listeners of a status.Status, the envelopes whose metrics
\* were read, and by group the envelopes on which RunProfiling was
\* invoked. Each is a bag: an entry made twice counts twice.
NoResult ==
    [components |-> EmptyBag, listeners |-> EmptyBag, read |-> EmptyBag,
     profiled |-> <<>>]

\* The babysitter as NewBabysitter returns it, no call made yet.
NewBabysitter ==
    /\ groups = <<>>
    /\ components = [g \in GroupNames |-> {}]
    /\ componentsVersion = [g \in GroupNames |-> InitialVersion]
    /\ routing = [g \in GroupNames |-> NoRoutingInfo]
    /\ routingVersion = [g \in GroupNames |-> InitialVersion]
    /\ routingLock = [g \in GroupNames |-> Free]
    /\ mu = [g \in GroupNames |-> Free]
    /\ envelopes = [g \in GroupNames |-> <<>>]
    /\ pids = [g \in GroupNames |-> <<>>]
    /\ nextEnvelope = 0
    /\ pc = [t \in Threads |-> "idle"]
    /\ req = [t \in Threads |-> NoRequest]
    /\ ret = [t \in Threads |-> NoReply]
    /\ r = [t \in Threads |-> 0]
    /\ calls = 0
    /\ passed = [g \in GroupNames |-> {}]
    /\ routedStarted = [g \in GroupNames |-> {}]
    /\ spawned = [g \in GroupNames |-> FALSE]
    /\ cancelled = FALSE
    /\ bmu = Free
    /\ proxies = <<>>
    /\ acceptors = <<>>
    /\ lis = [t \in Threads |-> NoListen]
    /\ locals = [t \in Threads |-> NoLocal]
    /\ out = [t \in Threads |-> NoResult]
    /\ exited = {}
    /\ stopped = {}
    /\ inflight = [l \in ListenerNames |-> 0]

Init ==
    /\ NewBabysitter
    /\ candidates = <<>>
    /\ currAssignment = NoAssignment
    /\ newAssignment = NoAssignment
    /\ routingInfo = NoRoutingInfo
    /\ order = <<>>

\* ------------------------------------------------------------ calls

\* f with the value v at x, x joining the domain of f if need be.
Put(f, x, v) == [y \in DOMAIN f \cup {x} |-> IF y = x THEN v ELSE f[y]]

\* No lookup finds a record.
GroupNeverFound(gs, name) == FALSE

\* g, ok := b.groups[name]: a record is stored under the name.
GroupFound(gs, name) == name \in DOMAIN gs

\* &group{...}: a record with fresh cells, which no earlier record is. The
\* records allocated for a name are numbered in the order of allocation.
NewGroup(gs, name) == IF name \in DOMAIN gs THEN gs[name] + 1 ELSE 1

\* b.group(name): get or create the record, under b.mu, which is taken and
\* released inside the call. The record returned is groups'[name].
group(name) ==
    groups' = IF GroupFound(groups, name)
              THEN groups
              ELSE Put(groups, name, NewGroup(groups, name))

\* A thread takes a call: the callback is entered and b.group has run.
Begin(t, rq, next) ==
    /\ pc[t] = "idle"
    /\ calls < MaxCalls
    /\ bmu = Free
    /\ calls' = calls + 1
    /\ group(rq.group)
    /\ req' = [req EXCEPT ![t] = [rq EXCEPT !.g = groups'[rq.group]]]
    /\ ret' = [ret EXCEPT ![t] = NoReply]
    /\ pc' = [pc EXCEPT ![t] = next]
    /\ UNCHANGED r

\* The call returns.
Return(t, reply) ==
    /\ ret' = [ret EXCEPT ![t] = reply]
    /\ pc' = [pc EXCEPT ![t] = "idle"]
    /\ r' = [r EXCEPT ![t] = 0]
    /\ UNCHANGED <<req, calls>>

Goto(t, next) ==
    /\ pc' = [pc EXCEPT ![t] = next]
    /\ UNCHANGED <<req, ret, r, calls>>

\* ------------------------------------------------------------ StartComponent

\* No check of the started components.
SCNoCheck(started, component) == FALSE

\* g.components.Val[req.Component]: already started, or being started.
SCAlreadyStarted(started, component) == component \in started

\* The group is started without the routing update.
SCSkipUpdate(isRouted) == "sg_lock"

\* Where StartComponent goes once the component is recorded: the routing
\* update of a routed component comes before startColocationGroup.
SCAfterRecord(isRouted) == IF isRouted THEN "sc_update" ELSE "sg_lock"

\* An assignment whose Component field is not set.
SCUnnamedAssignment(component, replicas) ==
    routingAlgo([component |-> "", version |-> 0, slices |-> <<>>], replicas)

\* The assignment StartComponent appends for the component.
SCAssignment(component, replicas) ==
    routingAlgo([component |-> component, version |-> 0, slices |-> <<>>],
                replicas)

StartComponentBegin(t) ==
    \E g \in GroupNames, c \in ComponentNames :
        /\ Begin(t, Request("StartComponent", g, c, c \in Routed, 0, 0, 0),
                 "sc_record")
        /\ UNCHANGED <<cells, workers, history>>
        /\ UNCHANGED <<supervisor, facade, tasks, algo>>

\* record(): under the lock of g.components, whose Unlock bumps the version.
StartComponentRecord(t) ==
    LET g == req[t].group
        c == req[t].component
    IN  /\ pc[t] = "sc_record"
        /\ componentsVersion' =
               [componentsVersion EXCEPT ![g] = componentsVersion[g] + 1]
        /\ IF SCAlreadyStarted(components[g], c)
           THEN /\ Return(t, Nil)
                /\ UNCHANGED <<components, routedStarted>>
           ELSE /\ components' = [components EXCEPT ![g] = components[g] \cup {c}]
                /\ routedStarted' =
                       [routedStarted EXCEPT ![g] =
                           IF req[t].isRouted THEN routedStarted[g] \cup {c}
                           ELSE routedStarted[g]]
                /\ Goto(t, SCAfterRecord(req[t].isRouted))
        /\ UNCHANGED <<groups, routing, routingVersion, routingLock, workers,
                       passed, spawned>>
        /\ UNCHANGED <<supervisor, facade, tasks, algo>>

\* update(): under the write lock of g.routing.
StartComponentUpdate(t) ==
    LET g == req[t].group
        c == req[t].component
        replicas == routing[g].replicas
    IN  /\ pc[t] = "sc_update"
        /\ routingLock[g] = Free
        /\ routing' =
               [routing EXCEPT ![g] =
                   [replicas |-> CandidatesAfter(replicas),
                    assignments |->
                        Append(routing[g].assignments,
                               SCAssignment(c, replicas))]]
        /\ routingVersion' = [routingVersion EXCEPT ![g] = routingVersion[g] + 1]
        /\ Goto(t, "sg_lock")
        /\ UNCHANGED <<groups, components, componentsVersion, routingLock,
                       workers, history>>
        /\ UNCHANGED <<supervisor, facade, tasks, algo>>

\* ------------------------------------------------------------ startColocationGroup

\* len(g.envelopes) == DefaultReplication: already started.
SGAlreadyStarted(es) == Len(es) = DefaultReplication

\* g.mu.Lock(), and the check of the number of envelopes.
StartGroupLock(t) ==
    LET g == req[t].group
    IN  /\ pc[t] = "sg_lock"
        /\ mu[g] = Free
        /\ IF SGAlreadyStarted(envelopes[g])
           THEN /\ Return(t, Nil)
                /\ spawned' = [spawned EXCEPT ![g] = TRUE]
                /\ UNCHANGED mu
           ELSE /\ mu' = [mu EXCEPT ![g] = t]
                /\ Goto(t, "sg_loop")
                /\ UNCHANGED spawned
        /\ UNCHANGED <<groups, cells, envelopes, pids, nextEnvelope, passed,
                       routedStarted>>
        /\ UNCHANGED <<supervisor, facade, tasks, algo>>

\* One pass of the loop: envelope.NewEnvelope either fails, and the call
\* returns its error with the envelopes appended so far left in place, or
\* gives a handle, which is started (go e.Run) and appended. The pass that
\* appends the last handle returns nil. The deferred g.mu.Unlock runs on
\* either return.
StartGroupSpawn(t) ==
    LET g == req[t].group
    IN  /\ pc[t] = "sg_loop"
        /\ mu[g] = t
        /\ \E ok \in BOOLEAN :
            IF ok
            THEN /\ envelopes' =
                        [envelopes EXCEPT ![g] = Append(envelopes[g], nextEnvelope + 1)]
                 /\ nextEnvelope' = nextEnvelope + 1
                 /\ IF r[t] + 1 < DefaultReplication
                    THEN /\ r' = [r EXCEPT ![t] = r[t] + 1]
                         /\ UNCHANGED <<pc, req, ret, calls, mu, spawned>>
                    ELSE /\ Return(t, Nil)
                         /\ mu' = [mu EXCEPT ![g] = Free]
                         /\ spawned' = [spawned EXCEPT ![g] = TRUE]
            ELSE /\ Return(t, Err)
                 /\ mu' = [mu EXCEPT ![g] = Free]
                 /\ UNCHANGED <<envelopes, nextEnvelope, spawned>>
        /\ UNCHANGED <<groups, cells, pids, passed, routedStarted>>
        /\ UNCHANGED <<supervisor, facade, tasks, algo>>

\* ------------------------------------------------------------ RegisterReplica

\* A loop that looks at the first replica only.
RRFirstOnly(replicas, address) == replicas # <<>> /\ replicas[1] = address

\* No check of the registered replicas.
RRNoCheck(replicas, address) == FALSE

\* The loop over g.routing.Val.Replicas: the address is already registered.
RRAlreadyRegistered(replicas, address) == address \in Range(replicas)

\* g.routing.Val.Replicas = append(g.routing.Val.Replicas, req.Address)
RRAppend(replicas, address) == Append(replicas, address)

\* The assignments are left as they are.
RRNoRecompute(assignments, replicas) == assignments

\* The first replica to register leaves the assignments as they are.
RRRecomputeFromSecond(assignments, replicas) ==
    IF Len(replicas) = 1 THEN assignments
    ELSE [i \in DOMAIN assignments |-> routingAlgo(assignments[i], replicas)]

\* Each assignment is recomputed for the replicas registered before.
RRRecomputeStale(assignments, replicas) ==
    [i \in DOMAIN assignments |->
        routingAlgo(assignments[i], SubSeq(replicas, 1, Len(replicas) - 1))]

\* The loop over g.routing.Val.Assignments: each is recomputed for the
\* replicas, which the first call of routingAlgo sorts in place.
RRRecompute(assignments, replicas) ==
    [i \in DOMAIN assignments |-> routingAlgo(assignments[i], replicas)]

RRReplicasAfter(assignments, replicas) ==
    IF assignments = <<>> THEN replicas ELSE CandidatesAfter(replicas)

\* The pid is dropped.
RRKeepPids(ps, pid) == ps

\* g.pids = append(g.pids, req.Pid)
RRAddPid(ps, pid) == Append(ps, pid)

\* The lock of g.routing stays with the caller.
RRKeepLock(locks, g) == locks

\* defer g.routing.Unlock(): the write lock of the group's cell is free.
RRUnlock(locks, g) == [locks EXCEPT ![g] = Free]

RegisterReplicaBegin(t) ==
    \E g \in GroupNames, a \in Addresses :
        /\ Begin(t, Request("RegisterReplica", g, "", FALSE, a, PidOf(a), 0),
                 "rr_lock")
        /\ passed' = [passed EXCEPT ![g] = passed[g] \cup {a}]
        /\ UNCHANGED <<cells, workers, routedStarted, spawned>>
        /\ UNCHANGED <<supervisor, facade, tasks, algo>>

\* g.routing.Lock() and the update of the routing info. A registered
\* address returns at once (the deferred Unlock bumps the version); a new
\* one keeps the lock while the call goes on to g.mu.
RegisterReplicaRouting(t) ==
    LET g == req[t].group
        a == req[t].address
        replicas == RRAppend(routing[g].replicas, a)
    IN  /\ pc[t] = "rr_lock"
        /\ routingLock[g] = Free
        /\ IF RRAlreadyRegistered(routing[g].replicas, a)
           THEN /\ routingVersion' =
                       [routingVersion EXCEPT ![g] = routingVersion[g] + 1]
                /\ Return(t, Nil)
                /\ UNCHANGED <<routing, routingLock>>
           ELSE /\ routing' =
                       [routing EXCEPT ![g] =
                           [replicas |->
                                RRReplicasAfter(routing[g].assignments, replicas),
                            assignments |->
                                RRRecompute(routing[g].assignments, replicas)]]
                /\ routingLock' = [routingLock EXCEPT ![g] = t]
                /\ Goto(t, "rr_pid")
                /\ UNCHANGED routingVersion
        /\ UNCHANGED <<groups, components, componentsVersion, workers, history>>
        /\ UNCHANGED <<supervisor, facade, tasks, algo>>

\* g.mu.Lock(); g.pids = append(g.pids, req.Pid); then the deferred
\* g.mu.Unlock and g.routing.Unlock, which bumps the version.
RegisterReplicaPid(t) ==
    LET g == req[t].group
    IN  /\ pc[t] = "rr_pid"
        /\ mu[g] = Free
        /\ pids' = [pids EXCEPT ![g] = RRAddPid(pids[g], req[t].pid)]
        /\ routingLock' = RRUnlock(routingLock, g)
        /\ routingVersion' = [routingVersion EXCEPT ![g] = routingVersion[g] + 1]
        /\ Return(t, Nil)
        /\ UNCHANGED <<groups, components, componentsVersion, routing, mu,
                       envelopes, nextEnvelope, history>>
        /\ UNCHANGED <<supervisor, facade, tasks, algo>>

\* ------------------------------------------------------------ routing, alone

Candidates == 1..MaxCandidates

\* The lists of distinct candidates.
Orderings ==
    {s \in UNION {[1..n -> Candidates] : n \in 0..MaxCandidates} :
        \A i, j \in DOMAIN s : i # j => s[i] # s[j]}

\* The assignments routingAlgo is handed: of a routed component, at some
\* version, with no slices yet or with the slice of a single replica.
PreviousAssignments ==
    {[component |-> c, version |-> v, slices |-> sl] :
        c \in Routed, v \in Versions, sl \in {<<>>, SlicesFor(<<1>>)}}

\* The routing info of a group in which StartComponent has run for one or
\* two routed components and no replica is registered.
StartedInfos ==
    {[replicas |-> <<>>, assignments |-> as] :
        as \in {<<SCAssignment("c1", <<>>)>>,
                <<SCAssignment("c1", <<>>), SCAssignment("c2", <<>>)>>}}

\* Either routingAlgo is about to be called with some assignment and some
\* list of candidates, or replicas are about to register with a group
\* whose routed components are started.
AlgoInit ==
    /\ NewBabysitter
    /\ newAssignment = NoAssignment
    /\ order = <<>>
    /\ \/ /\ candidates \in Orderings
          /\ currAssignment \in PreviousAssignments
          /\ routingInfo = NoRoutingInfo
       \/ /\ candidates = <<>>
          /\ currAssignment = NoAssignment
          /\ routingInfo \in StartedInfos

\* newAssignment = routingAlgo(currAssignment, candidates), which sorts the
\* caller's candidates in place.
RoutingAlgoCall ==
    /\ currAssignment # NoAssignment
    /\ newAssignment' = routingAlgo(currAssignment, candidates)
    /\ candidates' = CandidatesAfter(candidates)
    /\ UNCHANGED <<currAssignment, routingInfo, order, babysitter>>

\* The update of the routing info by RegisterReplica for an address that is
\* not registered.
RegisterReplicaUpdate ==
    \E a \in Candidates :
        LET replicas == RRAppend(routingInfo.replicas, a)
        IN  /\ routingInfo.assignments # <<>>
            /\ ~RRAlreadyRegistered(routingInfo.replicas, a)
            /\ routingInfo' =
                   [replicas |->
                        RRReplicasAfter(routingInfo.assignments, replicas),
                    assignments |->
                        RRRecompute(routingInfo.assignments, replicas)]
            /\ order' = Append(order, a)
            /\ UNCHANGED <<candidates, currAssignment, newAssignment,
                           babysitter>>

AlgoNext == RoutingAlgoCall \/ RegisterReplicaUpdate

AlgoSpec == AlgoInit /\ [][AlgoNext]_vars

\* ------------------------------------------------------------ long polls

\* versioned RLock(version): the read lock is granted once no writer holds
\* the cell and the cell's version is newer than the one presented.
RLockGranted(lock, version, observed) == lock = Free /\ version > observed

\* The zero version is presented whatever the request holds.
GRIObservedZero(rq) == 0

\* A version one above the request's is presented.
GRIObservedNext(rq) == rq.version + 1

\* The version GetRoutingInfo presents to g.routing.RLock.
GRIObserved(rq) == rq.version

\* The version GetComponentsToStart presents to g.components.RLock.
GCSObserved(rq) == rq.version

GetRoutingInfoBegin(t) ==
    \E g \in GroupNames, v \in Versions :
        /\ Begin(t, Request("GetRoutingInfo", g, "", FALSE, 0, 0, v),
                 "gri_rlock")
        /\ UNCHANGED <<cells, workers, history>>
        /\ UNCHANGED <<supervisor, facade, tasks, algo>>

\* version := g.routing.RLock(req.Version); the reply is a clone of the
\* routing info with the version stamped in.
GetRoutingInfoReply(t) ==
    LET g == req[t].group
    IN  /\ pc[t] = "gri_rlock"
        /\ RLockGranted(routingLock[g], routingVersion[g], GRIObserved(req[t]))
        /\ Return(t, [Nil EXCEPT !.version = routingVersion[g],
                                 !.replicas = routing[g].replicas,
                                 !.assignments = routing[g].assignments])
        /\ UNCHANGED <<groups, cells, workers, history>>
        /\ UNCHANGED <<supervisor, facade, tasks, algo>>

GetComponentsToStartBegin(t) ==
    \E g \in GroupNames, v \in Versions :
        /\ Begin(t, Request("GetComponentsToStart", g, "", FALSE, 0, 0, v),
                 "gcs_rlock")
        /\ UNCHANGED <<cells, workers, history>>
        /\ UNCHANGED <<supervisor, facade, tasks, algo>>

\* version := g.components.RLock(req.Version); the reply holds the keys of
\* the component map.
GetComponentsToStartReply(t) ==
    LET g == req[t].group
    IN  /\ pc[t] = "gcs_rlock"
        /\ RLockGranted(Free, componentsVersion[g], GCSObserved(req[t]))
        /\ Return(t, [Nil EXCEPT !.version = componentsVersion[g],
                                 !.components = components[g]])
        /\ UNCHANGED <<groups, cells, workers, history>>
        /\ UNCHANGED <<supervisor, facade, tasks, algo>>

\* ------------------------------------------------------------ ExportListener

\* req.LocalAddress: 0 stands for port 0 (any free port), 1 for a given
\* port; the free ports the system picks from are 2 and 3.
LocalAddresses == {0, 1}

\* req.Listener.Addr: the addresses the workers serve a listener on.
Backends == {1, 2}
EphemeralPorts == {2, 3}

\* The addresses the accept loops of the babysitter are bound to.
Bound == {acceptors[n].addr : n \in DOMAIN acceptors}

\* net.Listen("tcp", local): EADDRINUSE, another error, or a listener on
\* the given port, or for port 0 on a free port. A port that a listener of
\* the babysitter holds is not given again; any port may be held by
\* another process.
Listen(local) ==
    {[err |-> "inuse", addr |-> 0], [err |-> "fault", addr |-> 0]}
        \cup {[err |-> "", addr |-> a] :
                 a \in (IF local = 0 THEN EphemeralPorts ELSE {local}) \ Bound}

\* No proxy is ever found.
ELNeverFound(ps, name) == FALSE

\* p, ok := b.proxies[req.Listener.Name]
ELFound(ps, name) == name \in DOMAIN ps

\* p.proxy.AddBackend(addr): the address joins the backends of the proxy.
AddBackend(p, addr) == [p EXCEPT !.backends = @ \cup {addr}]

\* The error is returned as an error of the call.
ELInUseFault(err) == Err

\* &protos.ExportListenerReply{Error: err.Error()}, nil
ELInUseReply(err) == [Nil EXCEPT !.error = err]

\* No failure of net.Listen stops the registration.
ELFaultIgnored(err) == FALSE

\* if err != nil, past the test for EADDRINUSE: any other failure.
ELFault(err) == err # ""

\* b.proxies[req.Listener.Name] = &proxyInfo{...}, the proxy holding the
\* one backend.
ELRegister(ps, name, addr, backend) ==
    [l \in DOMAIN ps \cup {name} |->
        IF l = name THEN [addr |-> addr, backends |-> {backend}] ELSE ps[l]]

\* The callback is entered: b.mu.Lock().
ExportListenerBegin(t) ==
    \E l \in ListenerNames, backend \in Backends, local \in LocalAddresses :
        /\ pc[t] = "idle"
        /\ calls < MaxCalls
        /\ bmu = Free
        /\ bmu' = t
        /\ calls' = calls + 1
        /\ req' = [req EXCEPT ![t] =
                      [NoRequest EXCEPT !.op = "ExportListener",
                                        !.listener = l,
                                        !.address = backend,
                                        !.localAddress = local]]
        /\ ret' = [ret EXCEPT ![t] = NoReply]
        /\ pc' = [pc EXCEPT ![t] = "el_locked"]
        /\ UNCHANGED <<groups, cells, workers, r, history, cancelled, proxies,
                       acceptors, lis, facade, tasks, algo>>

\* The lookup of the proxy: one that exists gets the backend, and the call
\* returns its address (the deferred b.mu.Unlock runs); otherwise
\* net.Listen is called.
ExportListenerLookup(t) ==
    LET name == req[t].listener
    IN  /\ pc[t] = "el_locked"
        /\ bmu = t
        /\ IF ELFound(proxies, name)
           THEN /\ proxies' =
                       [proxies EXCEPT ![name] = AddBackend(@, req[t].address)]
                /\ Return(t, [Nil EXCEPT !.proxyAddress = proxies[name].addr])
                /\ bmu' = Free
                /\ UNCHANGED lis
           ELSE /\ \E l \in Listen(req[t].localAddress) :
                      lis' = [lis EXCEPT ![t] = l]
                /\ Goto(t, "el_listened")
                /\ UNCHANGED <<proxies, bmu>>
        /\ UNCHANGED <<groups, cells, workers, history, cancelled, acceptors,
                       facade, tasks, algo>>

\* What follows net.Listen: the reply that carries EADDRINUSE, the error of
\* any other failure, or the registration of a new proxy with its accept
\* loop (go serveHTTP). The deferred b.mu.Unlock runs on every return.
ExportListenerFinish(t) ==
    LET name == req[t].listener
    IN  /\ pc[t] = "el_listened"
        /\ bmu = t
        /\ bmu' = Free
        /\ lis' = [lis EXCEPT ![t] = NoListen]
        /\ IF lis[t].err = "inuse"
           THEN /\ Return(t, ELInUseReply(lis[t].err))
                /\ UNCHANGED <<proxies, acceptors>>
           ELSE IF ELFault(lis[t].err)
           THEN /\ Return(t, Err)
                /\ UNCHANGED <<proxies, acceptors>>
           ELSE /\ proxies' =
                       ELRegister(proxies, name, lis[t].addr, req[t].address)
                /\ acceptors' =
                       Append(acceptors,
                              [listener |-> name, addr |-> lis[t].addr])
                /\ Return(t, [Nil EXCEPT !.proxyAddress = lis[t].addr])
        /\ UNCHANGED <<groups, cells, workers, history, cancelled, facade,
                       tasks, algo>>

\* ------------------------------------------------------------ serveHTTP

\* serveHTTP for listener l is running: it was started (go serveHTTP in
\* ExportListener) and has not returned; until then its listener is open.
Serving(l) ==
    /\ \E n \in DOMAIN acceptors : acceptors[n].listener = l
    /\ \A s \in stopped : s.listener # l

\* server.Serve(lis) accepts a connection and a request on it is handed to
\* the proxy.
ProxyAccept(l) ==
    /\ Serving(l)
    /\ inflight[l] < MaxInflight
    /\ inflight' = [inflight EXCEPT ![l] = @ + 1]
    /\ UNCHANGED <<groups, cells, workers, threads, history, supervisor,
                   facade, exited, stopped, algo>>

\* The proxy has answered a request.
ProxyDone(l) ==
    /\ inflight[l] > 0
    /\ inflight' = [inflight EXCEPT ![l] = @ - 1]
    /\ UNCHANGED <<groups, cells, workers, threads, history, supervisor,
                   facade, exited, stopped, algo>>

\* case err := <-errs: server.Serve has failed, and serveHTTP returns its
\* error.
ServeFail(l) ==
    /\ Serving(l)
    /\ stopped' = stopped \cup {[listener |-> l, err |-> "serve"]}
    /\ UNCHANGED <<groups, cells, workers, threads, history, supervisor,
                   facade, exited, inflight, algo>>

\* server.Shutdown(ctx) with a context that is done: the listener and the
\* idle connections are closed, and the wait for the connections in use
\* ends when the context is done. With none in use the result is nil, and
\* otherwise it is the error of the context, returned at once.
Shutdown(requests) == IF requests = 0 THEN "" ELSE "canceled"

\* case <-ctx.Done(): return server.Shutdown(ctx), with the context that
\* has just been found done. The requests in flight go on or not; nothing
\* waits for them.
ServeShutdown(l) ==
    /\ Serving(l)
    /\ cancelled
    /\ stopped' =
           stopped \cup {[listener |-> l, err |-> Shutdown(inflight[l])]}
    /\ UNCHANGED <<groups, cells, workers, threads, history, supervisor,
                   facade, exited, inflight, algo>>

\* ------------------------------------------------------------ workers

\* The envelopes started (go e.Run), over all groups.
Started == UNION {Range(envelopes[g]) : g \in GroupNames}

\* e.Run(b.ctx) returns, with or without an error, which is logged: the
\* goroutine ends there. Restart is envelope.Never and nothing else runs.
WorkerExit ==
    \E e \in Started \ exited :
        /\ exited' = exited \cup {e}
        /\ UNCHANGED <<groups, cells, workers, threads, history, supervisor,
                       facade, stopped, inflight, algo>>

\* ------------------------------------------------------------ status server

\* A thread takes a call of the status server: Status, Metrics or Profile.
Enter(t, op, next) ==
    /\ pc[t] = "idle"
    /\ calls < MaxCalls
    /\ calls' = calls + 1
    /\ req' = [req EXCEPT ![t] = [NoRequest EXCEPT !.op = op]]
    /\ ret' = [ret EXCEPT ![t] = NoReply]
    /\ pc' = [pc EXCEPT ![t] = next]
    /\ out' = [out EXCEPT ![t] = NoResult]
    /\ UNCHANGED r

\* b.allGroups(): the group records, read under b.mu, which is taken and
\* released inside the call.
allGroups == DOMAIN groups

\* b.allProxies(): the proxy records, read under b.mu.
allProxies == {[listener |-> l, addr |-> proxies[l].addr] : l \in DOMAIN proxies}

\* ------------------------------------------------------------ readMetrics

\* Metrics() calls b.readMetrics(), as the stats processor does: the loop
\* over b.allGroups() begins.
MetricsBegin(t) ==
    /\ Enter(t, "Metrics", "rm_lock")
    /\ bmu = Free
    /\ locals' = [locals EXCEPT ![t] = [NoLocal EXCEPT !.todo = allGroups]]
    /\ UNCHANGED <<groups, cells, workers, history, supervisor, tasks, algo>>

\* read(g) for the next group: g.mu.Lock(), kept to the end of the loop
\* over its envelopes. With no group left the snapshots are returned.
MetricsLock(t) ==
    /\ pc[t] = "rm_lock"
    /\ IF locals[t].todo = {}
       THEN /\ Return(t, Nil)
            /\ UNCHANGED <<mu, locals>>
       ELSE \E g \in locals[t].todo :
                /\ mu[g] = Free
                /\ mu' = [mu EXCEPT ![g] = t]
                /\ locals' = [locals EXCEPT ![t].todo = @ \ {g},
                                            ![t].group = g,
                                            ![t].i = 1]
                /\ Goto(t, "rm_loop")
    /\ UNCHANGED <<groups, cells, envelopes, pids, nextEnvelope, history,
                   supervisor, out, tasks, algo>>

\* One pass of the loop over g.envelopes: e.ReadMetrics() is called with
\* g.mu held, and its snapshots are kept unless it failed. After the last
\* envelope the deferred g.mu.Unlock runs.
MetricsRead(t) ==
    LET g == locals[t].group
        i == locals[t].i
    IN  /\ pc[t] = "rm_loop"
        /\ mu[g] = t
        /\ IF i <= Len(envelopes[g])
           THEN /\ \E ok \in BOOLEAN :
                      out' = [out EXCEPT ![t].read =
                                 IF ok THEN @ (+) SetToBag({envelopes[g][i]})
                                 ELSE @]
                /\ locals' = [locals EXCEPT ![t].i = i + 1]
                /\ UNCHANGED <<mu, threads>>
           ELSE /\ mu' = [mu EXCEPT ![g] = Free]
                /\ Goto(t, "rm_lock")
                /\ UNCHANGED <<locals, out>>
        /\ UNCHANGED <<groups, cells, envelopes, pids, nextEnvelope, history,
                       supervisor, tasks, algo>>

\* ------------------------------------------------------------ Profile

\* Profile(ctx, req): the loop over b.allGroups() begins.
ProfileBegin(t) ==
    /\ Enter(t, "Profile", "pf_copy")
    /\ bmu = Free
    /\ locals' = [locals EXCEPT ![t] = [NoLocal EXCEPT !.todo = allGroups]]
    /\ UNCHANGED <<groups, cells, workers, history, supervisor, tasks, algo>>

\* g.mu.Lock(); envelopes[g.name] = slices.Clone(g.envelopes);
\* g.mu.Unlock(), for the next group.
ProfileCopy(t) ==
    /\ pc[t] = "pf_copy"
    /\ IF locals[t].todo = {}
       THEN /\ Goto(t, "pf_run")
            /\ UNCHANGED locals
       ELSE \E g \in locals[t].todo :
                /\ mu[g] = Free
                /\ locals' =
                       [locals EXCEPT
                           ![t].todo = @ \ {g},
                           ![t].envelopes = Put(@, g, envelopes[g])]
                /\ Goto(t, "pf_copy")
    /\ UNCHANGED <<groups, cells, workers, history, supervisor, out, tasks,
                   algo>>

\* The envelope each closure of runProfiling calls, in the order the
\* closures are made. Every closure refers to the loop variable e: where
\* the loop has one e per iteration (language version 1.22 on) a closure
\* calls the envelope of its iteration, and where it has one e for the
\* whole loop every closure calls the envelope the loop ended on.
Closures(es, perIteration) ==
    [i \in DOMAIN es |-> IF perIteration THEN es[i] ELSE es[Len(es)]]

\* The bag of the elements of a sequence.
BagOf(s) == [x \in Range(s) |-> Cardinality({i \in DOMAIN s : s[i] = x})]

\* tool.ProfileGroups(groups): each closure of each group is invoked once.
ProfileGroups(closures) == [g \in DOMAIN closures |-> BagOf(closures[g])]

\* runProfiling(b.ctx, req, envelopes): the closures are made, group by
\* group, and handed to tool.ProfileGroups; Profile returns the profile or
\* the error. No lock is held.
ProfileRun(t) ==
    /\ pc[t] = "pf_run"
    /\ \E perIteration \in BOOLEAN :
          out' = [out EXCEPT ![t].profiled =
                     ProfileGroups([g \in DOMAIN locals[t].envelopes |->
                        Closures(locals[t].envelopes[g], perIteration)])]
    /\ \E ok \in BOOLEAN : Return(t, IF ok THEN Nil ELSE Err)
    /\ UNCHANGED <<groups, cells, workers, history, supervisor, locals, tasks,
                   algo>>

\* ------------------------------------------------------------ Status

\* The full names of the components, as their dotted segments.
QualifiedName(c) ==
    CASE c = "c1" -> <<"pkg", "Cache">>
      [] c = "c2" -> <<"pkg", "Frontend">>
      [] OTHER -> <<"lib", "Cache">>

\* The first segment of the name.
ShortenComponentFirst(c) == QualifiedName(c)[1]

\* logging.ShortenComponent(component): the last dotted segment.
ShortenComponent(c) == QualifiedName(c)[Len(QualifiedName(c))]

\* The statistics of a window: calls, latency, bytes received and sent.
Window(n) ==
    [numCalls |-> n, avgLatencyMs |-> n + 1, recvKBPerSec |-> n + 2,
     sentKBPerSec |-> n + 3]

\* The records the stats processor may hold for a method.
GetStats == [name |-> "Get", minute |-> Window(42), hour |-> Window(50),
             total |-> Window(60)]
PutStats == [name |-> "Put", minute |-> Window(0), hour |-> Window(1),
             total |-> Window(70)]

\* What b.statsProcessor.GetStatsStatusz() may return: the method records
\* by short component name; nothing, records for Cache, or records for
\* Cache and Frontend.
StatsChoices ==
    {<<>>,
     "Cache" :> <<GetStats>>,
     ("Cache" :> <<GetStats, PutStats>>) @@ ("Frontend" :> <<PutStats>>)}

\* &status.MethodStats{NumCalls: ..., AvgLatencyMs: ..., RecvKbPerSec: ...,
\* SentKbPerSec: ...} of a window.
MethodStats(w) ==
    [numCalls |-> w.numCalls, avgLatencyMs |-> w.avgLatencyMs,
     recvKbPerSec |-> w.recvKBPerSec, sentKbPerSec |-> w.sentKBPerSec]

\* &status.Method{Name: ..., Minute: ..., Hour: ..., Total: ...}
Method(methodStats) ==
    [name |-> methodStats.name,
     minute |-> MethodStats(methodStats.minute),
     hour |-> MethodStats(methodStats.hour),
     total |-> MethodStats(methodStats.total)]

\* s := stats[logging.ShortenComponent(component)], and the loop over s
\* that appends to c.Methods; a nil s gives no method.
Methods(stats, component) ==
    LET short == ShortenComponent(component)
    IN  IF short \in DOMAIN stats
        THEN [n \in DOMAIN stats[short] |-> Method(stats[short][n])]
        ELSE <<>>

\* &status.Component{Name: component, Group: g.name, Pids: pids}, with its
\* methods.
Component(stats, component, g, ps) ==
    [name |-> component, group |-> g, pids |-> ps,
     methods |-> Methods(stats, component)]

\* Status(ctx): stats := b.statsProcessor.GetStatsStatusz(), and the loop
\* over b.allGroups() begins.
StatusBegin(t) ==
    /\ Enter(t, "Status", "st_components")
    /\ bmu = Free
    /\ \E stats \in StatsChoices :
          locals' = [locals EXCEPT ![t] =
                        [NoLocal EXCEPT !.stats = stats, !.todo = allGroups]]
    /\ UNCHANGED <<groups, cells, workers, history, supervisor, tasks, algo>>

\* g.components.Lock(); cs := maps.Keys(g.components.Val);
\* g.components.Unlock(), for the next group: the Unlock bumps the version.
\* With no group left, b.allProxies() follows.
StatusComponents(t) ==
    /\ pc[t] = "st_components"
    /\ IF locals[t].todo = {}
       THEN /\ Goto(t, "st_listeners")
            /\ UNCHANGED <<locals, componentsVersion>>
       ELSE \E g \in locals[t].todo :
                /\ locals' = [locals EXCEPT
                                 ![t].todo = @ \ {g},
                                 ![t].group = g,
                                 ![t].cs = Put(@, g, components[g])]
                /\ componentsVersion' =
                       [componentsVersion EXCEPT ![g] = @ + 1]
                /\ Goto(t, "st_pids")
    /\ UNCHANGED <<groups, components, routing, routingVersion, routingLock,
                   workers, history, supervisor, out, tasks, algo>>

\* g.mu.Lock(); pids := slices.Clone(g.pids); g.mu.Unlock(); then the loop
\* over cs, which appends one component with its methods for each name.
StatusPids(t) ==
    LET g == locals[t].group
        stats == locals[t].stats
    IN  /\ pc[t] = "st_pids"
        /\ mu[g] = Free
        /\ locals' = [locals EXCEPT ![t].pids = Put(@, g, pids[g])]
        /\ out' = [out EXCEPT ![t].components =
                      @ (+) SetToBag({Component(stats, c, g, pids[g]) :
                                         c \in locals[t].cs[g]})]
        /\ Goto(t, "st_components")
        /\ UNCHANGED <<groups, cells, workers, history, supervisor, tasks,
                       algo>>

\* &status.Listener{Name: proxy.listener, Addr: proxy.addr}
Listener(proxy) == [name |-> proxy.listener, addr |-> proxy.addr]

\* The loop over b.allProxies(), and the return of the status.
StatusListeners(t) ==
    /\ pc[t] = "st_listeners"
    /\ bmu = Free
    /\ out' = [out EXCEPT ![t].listeners =
                  SetToBag({Listener(proxy) : proxy \in allProxies})]
    /\ Return(t, Nil)
    /\ UNCHANGED <<groups, cells, workers, history, supervisor, locals, tasks,
                   algo>>

\* ------------------------------------------------------------ cancellation

\* The owner of the context passed to NewBabysitter cancels it: b.ctx is
\* done. The callbacks take no context and the handlers of the long polls
\* pass none to RLock, so no step of theirs reads this.
Cancel ==
    /\ ~cancelled
    /\ cancelled' = TRUE
    /\ UNCHANGED <<groups, cells, workers, threads, history, bmu, proxies,
                   acceptors, lis, facade, tasks, algo>>

\* ------------------------------------------------------------ specification

Next ==
    \E t \in Threads :
        \/ StartComponentBegin(t)
        \/ StartComponentRecord(t)
        \/ StartComponentUpdate(t)
        \/ StartGroupLock(t)
        \/ StartGroupSpawn(t)
        \/ RegisterReplicaBegin(t)
        \/ RegisterReplicaRouting(t)
        \/ RegisterReplicaPid(t)
        \/ GetRoutingInfoBegin(t)
        \/ GetRoutingInfoReply(t)
        \/ GetComponentsToStartBegin(t)
        \/ GetComponentsToStartReply(t)

Spec == Init /\ [][Next]_vars

\* A thread that is inside a call goes on running it.
Continue(t) ==
    \/ StartComponentRecord(t)
    \/ StartComponentUpdate(t)
    \/ StartGroupLock(t)
    \/ StartGroupSpawn(t)
    \/ RegisterReplicaRouting(t)
    \/ RegisterReplicaPid(t)
    \/ GetRoutingInfoReply(t)
    \/ GetComponentsToStartReply(t)

FairSpec == Spec /\ \A t \in Threads : WF_vars(Continue(t))

\* The calls that write or read the routing info of a group, under the same
\* fairness.
RoutingNext ==
    \E t \in Threads :
        \/ StartComponentBegin(t)
        \/ StartComponentRecord(t)
        \/ StartComponentUpdate(t)
        \/ StartGroupLock(t)
        \/ StartGroupSpawn(t)
        \/ RegisterReplicaBegin(t)
        \/ RegisterReplicaRouting(t)
        \/ RegisterReplicaPid(t)
        \/ GetRoutingInfoBegin(t)
        \/ GetRoutingInfoReply(t)

FairRoutingSpec ==
    Init /\ [][RoutingNext]_vars /\ \A t \in Threads : WF_vars(Continue(t))

\* The long polls, the calls that write the cells they wait on, and the
\* cancellation of the root context, under the same fairness.
CancelNext ==
    \/ Cancel
    \/ \E t \in Threads :
        \/ StartComponentBegin(t)
        \/ StartComponentRecord(t)
        \/ StartComponentUpdate(t)
        \/ StartGroupLock(t)
        \/ StartGroupSpawn(t)
        \/ GetRoutingInfoBegin(t)
        \/ GetRoutingInfoReply(t)
        \/ GetComponentsToStartBegin(t)
        \/ GetComponentsToStartReply(t)

FairCancelSpec ==
    Init /\ [][CancelNext]_vars /\ \A t \in Threads : WF_vars(Continue(t))

\* The exports of listeners, and RegisterReplica as another callback that
\* needs b.mu.
ProxyNext ==
    \E t \in Threads :
        \/ ExportListenerBegin(t)
        \/ ExportListenerLookup(t)
        \/ ExportListenerFinish(t)
        \/ RegisterReplicaBegin(t)
        \/ RegisterReplicaRouting(t)
        \/ RegisterReplicaPid(t)

ProxySpec == Init /\ [][ProxyNext]_vars

\* The status server's Metrics and Profile beside the callbacks that start
\* workers and export listeners.
FacadeNext ==
    \E t \in Threads :
        \/ StartComponentBegin(t)
        \/ StartComponentRecord(t)
        \/ StartComponentUpdate(t)
        \/ StartGroupLock(t)
        \/ StartGroupSpawn(t)
        \/ ExportListenerBegin(t)
        \/ ExportListenerLookup(t)
        \/ ExportListenerFinish(t)
        \/ MetricsBegin(t)
        \/ MetricsLock(t)
        \/ MetricsRead(t)
        \/ ProfileBegin(t)
        \/ ProfileCopy(t)
        \/ ProfileRun(t)

FacadeSpec == Init /\ [][FacadeNext]_vars

\* The callbacks that start components and register replicas, with workers
\* that exit.
WorkerNext ==
    \/ WorkerExit
    \/ \E t \in Threads :
        \/ StartComponentBegin(t)
        \/ StartComponentRecord(t)
        \/ StartComponentUpdate(t)
        \/ StartGroupLock(t)
        \/ StartGroupSpawn(t)
        \/ RegisterReplicaBegin(t)
        \/ RegisterReplicaRouting(t)
        \/ RegisterReplicaPid(t)

WorkerSpec == Init /\ [][WorkerNext]_vars

\* The exports of listeners, the proxies they start and the cancellation
\* of the context. A serve task that may return does, and a call that has
\* begun goes on.
ShutdownNext ==
    \/ \E t \in Threads :
        \/ ExportListenerBegin(t)
        \/ ExportListenerLookup(t)
        \/ ExportListenerFinish(t)
    \/ \E l \in ListenerNames :
        \/ ProxyAccept(l)
        \/ ProxyDone(l)
        \/ ServeFail(l)
        \/ ServeShutdown(l)
    \/ Cancel

FairShutdownSpec ==
    /\ Init
    /\ [][ShutdownNext]_vars
    /\ \A l \in ListenerNames : WF_vars(ServeShutdown(l))
    /\ \A t \in Threads :
          WF_vars(ExportListenerLookup(t) \/ ExportListenerFinish(t))

\* The status server's Status beside the callbacks that start components,
\* register replicas and export listeners.
StatusNext ==
    \E t \in Threads :
        \/ StartComponentBegin(t)
        \/ StartComponentRecord(t)
        \/ StartComponentUpdate(t)
        \/ StartGroupLock(t)
        \/ StartGroupSpawn(t)
        \/ RegisterReplicaBegin(t)
        \/ RegisterReplicaRouting(t)
        \/ RegisterReplicaPid(t)
        \/ ExportListenerBegin(t)
        \/ ExportListenerLookup(t)
        \/ ExportListenerFinish(t)
        \/ StatusBegin(t)
        \/ StatusComponents(t)
        \/ StatusPids(t)
        \/ StatusListeners(t)

StatusSpec == Init /\ [][StatusNext]_vars

\* Every callback and every call of the status server, on threads that go
\* on running the call they are in.
Run(t) ==
    \/ Continue(t)
    \/ ExportListenerLookup(t)
    \/ ExportListenerFinish(t)
    \/ MetricsLock(t)
    \/ MetricsRead(t)
    \/ ProfileCopy(t)
    \/ ProfileRun(t)
    \/ StatusComponents(t)
    \/ StatusPids(t)
    \/ StatusListeners(t)

AllNext ==
    \E t \in Threads :
        \/ StartComponentBegin(t)
        \/ StartComponentRecord(t)
        \/ StartComponentUpdate(t)
        \/ StartGroupLock(t)
        \/ StartGroupSpawn(t)
        \/ RegisterReplicaBegin(t)
        \/ RegisterReplicaRouting(t)
        \/ RegisterReplicaPid(t)
        \/ GetRoutingInfoBegin(t)
        \/ GetRoutingInfoReply(t)
        \/ GetComponentsToStartBegin(t)
        \/ GetComponentsToStartReply(t)
        \/ ExportListenerBegin(t)
        \/ ExportListenerLookup(t)
        \/ ExportListenerFinish(t)
        \/ MetricsBegin(t)
        \/ MetricsLock(t)
        \/ MetricsRead(t)
        \/ ProfileBegin(t)
        \/ ProfileCopy(t)
        \/ ProfileRun(t)
        \/ StatusBegin(t)
        \/ StatusComponents(t)
        \/ StatusPids(t)
        \/ StatusListeners(t)

FairAllSpec ==
    Init /\ [][AllNext]_vars /\ \A t \in Threads : WF_vars(Run(t))

\* ------------------------------------------------------------ claims

\* The number of assignments of a routing info for a component.
AssignmentsOf(info, c) ==
    Cardinality({n \in DOMAIN info.assignments : info.assignments[n].component = c})

\* Thread t has returned from a call of op.
Returned(t, op) == pc[t] = "idle" /\ req[t].op = op /\ ret[t].status # "none"

\* Thread t is inside startColocationGroup.
InStartGroup(t) == pc[t] \in {"sg_lock", "sg_loop"}

\* Every assignment of a routing info has the slices routingAlgo gives for
\* the replicas of that routing info.
Consistent(info) ==
    \A n \in DOMAIN info.assignments :
        info.assignments[n].slices = SlicesFor(SortStrings(info.replicas))

\* C1: whenever the mutex of a group is free, the group has no envelope or
\* DefaultReplication envelopes, never a partial count.
C1_NeverPartial ==
    \A g \in GroupNames :
        mu[g] = Free => Len(envelopes[g]) \in {0, DefaultReplication}

\* C2: once a start of the group has returned nil, no step changes the
\* envelopes of the group, which number DefaultReplication, and no call
\* returns a spawn error.
C2_StartGroupIdempotent ==
    [][\A g \in GroupNames :
          spawned[g] =>
              /\ Len(envelopes[g]) = DefaultReplication
              /\ envelopes'[g] = envelopes[g]
              /\ \A t \in Threads :
                    (InStartGroup(t) /\ req[t].group = g /\ pc'[t] = "idle")
                        => ret'[t].status = "nil"]_vars

\* C3: the step of RegisterReplica that finds its address among the
\* replicas returns nil and leaves the replicas, the assignments and the
\* pids as they were.
C3_DuplicateRegisterIsNoOp ==
    [][\A t \in Threads :
          (/\ pc[t] = "rr_lock"
           /\ pc'[t] # "rr_lock"
           /\ req[t].address \in Range(routing[req[t].group].replicas))
              => /\ routing' = routing
                 /\ pids' = pids
                 /\ pc'[t] = "idle"
                 /\ ret'[t].status = "nil"]_vars

\* Two threads have returned from RegisterReplica with the same address of
\* the same group: one of the two calls found the address registered.
C3_Witness ==
    \E t1, t2 \in Threads :
        /\ t1 # t2
        /\ Returned(t1, "RegisterReplica")
        /\ Returned(t2, "RegisterReplica")
        /\ req[t1].group = req[t2].group
        /\ req[t1].address = req[t2].address

\* C4: no address is twice among the replicas of a group, and when no
\* RegisterReplica is in progress the replicas are as many as the distinct
\* addresses passed to RegisterReplica for the group.
C4_ReplicasDistinct ==
    \A g \in GroupNames :
        /\ Cardinality(Range(routing[g].replicas)) = Len(routing[g].replicas)
        /\ (\A t \in Threads : pc[t] \notin {"rr_lock", "rr_pid"})
              => Len(routing[g].replicas) = Cardinality(passed[g])

\* Two distinct addresses are registered, one of them passed twice.
C4_Witness ==
    /\ C3_Witness
    /\ \E g \in GroupNames : Len(routing[g].replicas) = 2

\* C5: the step of StartComponent that finds its component started returns
\* nil and changes neither the components nor the routing info; and no
\* component has two assignments, whatever the interleaving of the calls.
C5_ComponentDedup ==
    /\ [][\A t \in Threads :
             (/\ pc[t] = "sc_record"
              /\ pc'[t] # "sc_record"
              /\ req[t].component \in components[req[t].group])
                 => /\ components' = components
                    /\ routing' = routing
                    /\ pc'[t] = "idle"
                    /\ ret'[t].status = "nil"]_vars
    /\ [](\A g \in GroupNames, c \in ComponentNames :
             AssignmentsOf(routing[g], c) <= 1)

\* Two threads have returned nil from StartComponent of the same routed
\* component of the same group.
C5_Witness ==
    \E t1, t2 \in Threads :
        /\ t1 # t2
        /\ Returned(t1, "StartComponent")
        /\ Returned(t2, "StartComponent")
        /\ ret[t1].status = "nil"
        /\ ret[t2].status = "nil"
        /\ req[t1].isRouted
        /\ req[t1].group = req[t2].group
        /\ req[t1].component = req[t2].component
        /\ AssignmentsOf(routing[req[t1].group], req[t1].component) = 1

\* C6 as claimed: in every state, every component of a group that a routed
\* call recorded has exactly one assignment.
C6_ExactlyOneAlways ==
    \A g \in GroupNames :
        \A c \in components[g] \cap routedStarted[g] :
            AssignmentsOf(routing[g], c) = 1

\* The call that recorded component c of group g has not yet appended its
\* assignment.
Updating(g, c) ==
    \E t \in Threads :
        pc[t] = "sc_update" /\ req[t].group = g /\ req[t].component = c

\* C6 as amended: a component that a routed call recorded never has two
\* assignments, and has exactly one from the moment the recording call has
\* appended it.
C6_ExactlyOneOnceAppended ==
    \A g \in GroupNames :
        \A c \in components[g] \cap routedStarted[g] :
            /\ AssignmentsOf(routing[g], c) <= 1
            /\ ~Updating(g, c) => AssignmentsOf(routing[g], c) = 1

\* Two routed components are recorded and have their assignments, while a
\* call is inside startColocationGroup.
C6_Witness ==
    \E g \in GroupNames :
        /\ Cardinality(components[g] \cap routedStarted[g]) = 2
        /\ \A c \in components[g] \cap routedStarted[g] : ~Updating(g, c)
        /\ \E t \in Threads : InStartGroup(t)

\* C7: every reply of GetRoutingInfo is consistent: each of its assignments
\* has the slices routingAlgo gives for the replicas of the reply.
C7_RepliesConsistent ==
    \A t \in Threads :
        (Returned(t, "GetRoutingInfo") /\ ret[t].status = "nil")
            => Consistent(ret[t])

\* A reply of GetRoutingInfo holds a replica and an assignment with a slice.
C7_Witness ==
    \E t \in Threads :
        /\ Returned(t, "GetRoutingInfo")
        /\ ret[t].replicas # <<>>
        /\ ret[t].assignments # <<>>
        /\ ret[t].assignments[1].slices # <<>>

\* C8: while a StartComponent call of a routed component is inside
\* startColocationGroup, the routing info holds an assignment for the
\* component and the call does not hold the routing lock.
C8_AssignmentBeforeStart ==
    \A t \in Threads :
        (InStartGroup(t) /\ req[t].isRouted)
            => /\ AssignmentsOf(routing[req[t].group], req[t].component) >= 1
               /\ routingLock[req[t].group] # t

\* A call for a routed component has launched a worker and is still inside
\* startColocationGroup.
C8_Witness ==
    \E t \in Threads :
        /\ pc[t] = "sg_loop"
        /\ req[t].isRouted
        /\ r[t] = 1
        /\ envelopes[req[t].group] # <<>>

\* C9: a reply of GetRoutingInfo or GetComponentsToStart carries a version
\* greater than the version of the request.
C9_NewerVersion ==
    \A t \in Threads :
        (Returned(t, "GetRoutingInfo") \/ Returned(t, "GetComponentsToStart"))
            => ret[t].version > req[t].version

\* GetRoutingInfo has returned to a request that presented version 1, a
\* version that the cell had before its last write.
C9_Witness ==
    \E t \in Threads :
        /\ Returned(t, "GetRoutingInfo")
        /\ req[t].version = 1
        /\ ret[t].version = 2

\* C10: a reader waiting in GetRoutingInfo for a version that the cell has
\* exceeded returns in the end; and the reply it returns with carries a
\* newer version and the replicas and assignments the cell then holds, every
\* address registered by then among them, the assignments computed for
\* those replicas.
C10_LongPollWakeup ==
    /\ \A t \in Threads :
          (pc[t] = "gri_rlock" /\ routingVersion[req[t].group] > req[t].version)
              ~> Returned(t, "GetRoutingInfo")
    /\ [][\A t \in Threads :
             (pc[t] = "gri_rlock" /\ pc'[t] = "idle")
                 => /\ ret'[t].version > req[t].version
                    /\ ret'[t].version = routingVersion[req[t].group]
                    /\ ret'[t].replicas = routing[req[t].group].replicas
                    /\ ret'[t].assignments = routing[req[t].group].assignments
                    /\ Len(ret'[t].replicas) = Len(pids[req[t].group])
                    /\ Consistent(ret'[t])]_vars

\* A reader that presented version 1 has returned with version 2, the
\* registered replica and the assignment of a component.
C10_Witness ==
    \E t \in Threads :
        /\ Returned(t, "GetRoutingInfo")
        /\ req[t].version = 1
        /\ ret[t].version = 2
        /\ Len(ret[t].replicas) = 1
        /\ ret[t].assignments # <<>>

\* Thread t is blocked in the RLock of a long poll.
Polling(t) == pc[t] \in {"gri_rlock", "gcs_rlock"}

\* C11: once the root context is cancelled, every call blocked in
\* GetRoutingInfo or GetComponentsToStart returns in the end, with a
\* cancellation signal and no snapshot, whether or not the cell is written
\* again.
C11_CancelUnblocks ==
    \A t \in Threads :
        (cancelled /\ Polling(t))
            ~> (pc[t] = "idle" /\ ret[t].status = "cancelled")

\* routingAlgo has returned newAssignment for a list of candidates that is
\* not empty.
AlgoReturned == newAssignment # NoAssignment /\ candidates # <<>>

\* C12: for a non-empty list of distinct candidates the slices routingAlgo
\* returns start at key 0 and have strictly increasing start keys: with
\* each slice reaching to the start of the next and the last to the end of
\* the key space, they cover it without gap, overlap or empty slice.
C12_RoutingTotality ==
    AlgoReturned =>
        LET slices == newAssignment.slices
        IN  /\ slices # <<>>
            /\ slices[1].start = minSliceKey
            /\ \A n \in 1..(Len(slices) - 1) :
                  KeyLess(slices[n].start, slices[n + 1].start)

\* routingAlgo has returned eight slices.
C12_Witness == AlgoReturned /\ Len(newAssignment.slices) = 8

\* C13: routingAlgo returns the same slices for every ordering of the same
\* candidates, and the same assignment when called again with the same
\* arguments; the version it returns is one above the version it was
\* given and the component is the one it was given.
C13_RoutingDeterminism ==
    newAssignment # NoAssignment =>
        /\ \A ys \in [1..Len(candidates) -> Range(candidates)] :
              Range(ys) = Range(candidates) =>
                  routingAlgo(currAssignment, ys).slices = newAssignment.slices
        /\ routingAlgo(currAssignment, candidates) = newAssignment
        /\ newAssignment.version = currAssignment.version + 1
        /\ newAssignment.component = currAssignment.component

\* routingAlgo has returned for three candidates or more and an assignment
\* of version 1 that had a slice.
C13_Witness ==
    /\ newAssignment # NoAssignment
    /\ Len(candidates) >= 3
    /\ currAssignment.version = 1
    /\ currAssignment.slices # <<>>

\* The smallest power of two that is at least n.
SmallestPowerOfTwo(n) ==
    LET powers == {Pow2(k) : k \in 0..MaxCandidates}
    IN  CHOOSE p \in powers : p >= n /\ \A q \in powers : q >= n => p <= q

\* The number of slices of an assignment owned by address a alone.
Owned(assignment, a) ==
    Cardinality({n \in DOMAIN assignment.slices :
                    assignment.slices[n].replicas = <<a>>})

\* C14: for n >= 1 distinct candidates routingAlgo returns as many slices
\* as the smallest power of two >= n, each owned by a single candidate, and
\* every candidate owns at least one slice and either the floor or the
\* ceiling of (number of slices) / n of them.
C14_RoutingLoad ==
    AlgoReturned =>
        LET n == Len(candidates)
            slices == newAssignment.slices
            k == Len(slices)
        IN  /\ k = SmallestPowerOfTwo(n)
            /\ \A i \in DOMAIN slices :
                  /\ Len(slices[i].replicas) = 1
                  /\ slices[i].replicas[1] \in Range(candidates)
            /\ \A a \in Range(candidates) :
                  /\ Owned(newAssignment, a) >= 1
                  /\ Owned(newAssignment, a) \in {k \div n, (k + n - 1) \div n}

\* routingAlgo has returned four slices for three candidates: one of them
\* owns two slices, the others one.
C14_Witness ==
    /\ AlgoReturned
    /\ Len(candidates) = 3
    /\ Len(newAssignment.slices) = 4
    /\ \E a, b \in Range(candidates) :
          Owned(newAssignment, a) = 2 /\ Owned(newAssignment, b) = 1

\* The key 0x8000000000000000.
HalfKey == [p \in 1..KeyBits |-> IF p = KeyBits THEN 1 ELSE 0] \o <<>>

\* The least and the greatest address of a non-empty list.
Least(replicas) ==
    CHOOSE a \in Range(replicas) : \A b \in Range(replicas) : a <= b

Greatest(replicas) ==
    CHOOSE a \in Range(replicas) : \A b \in Range(replicas) : b <= a

\* C15: in a group with two registered replicas the assignment of a routed
\* component has exactly two slices, the first starting at key 0 and owned
\* by the smaller address, the second starting at 0x8000000000000000 and
\* owned by the larger.
C15_TwoReplicaBoundary ==
    \A g \in GroupNames :
        Len(routing[g].replicas) = 2 =>
            \A n \in DOMAIN routing[g].assignments :
                routing[g].assignments[n].slices =
                    << [start |-> minSliceKey,
                        replicas |-> <<Least(routing[g].replicas)>>],
                       [start |-> HalfKey,
                        replicas |-> <<Greatest(routing[g].replicas)>>] >>

\* One routed component is started and two replicas have registered, the
\* larger address first.
C15_Witness ==
    \E g \in GroupNames :
        /\ Len(routing[g].assignments) = 1
        /\ Len(routing[g].replicas) = 2
        /\ pids[g] = <<PidOf(2), PidOf(1)>>

\* routingAlgo returns no slice for no candidate and, for a single
\* candidate, one slice that starts at key 0 and is owned by the candidate.
RoutingAlgoNoneAndOne ==
    \A a \in PreviousAssignments :
        /\ routingAlgo(a, <<>>).slices = <<>>
        /\ \A c \in Candidates :
              routingAlgo(a, <<c>>).slices =
                  << [start |-> minSliceKey, replicas |-> <<c>>] >>

\* C16: routingAlgo returns no slice for no candidate and, for a single
\* candidate, one slice that starts at key 0 and is owned by the candidate.
\* So in a group with no registered replica every assignment has no slices,
\* StartComponent of a routed component leaving the replicas empty; and in
\* a group with one registered replica every assignment has the one slice
\* {start 0, that address}.
C16_NoneAndOne ==
    /\ RoutingAlgoNoneAndOne
    /\ [](\A g \in GroupNames :
             \A n \in DOMAIN routing[g].assignments :
                 /\ routing[g].replicas = <<>>
                       => routing[g].assignments[n].slices = <<>>
                 /\ Len(routing[g].replicas) = 1
                       => routing[g].assignments[n].slices =
                              << [start |-> minSliceKey,
                                  replicas |-> routing[g].replicas] >>)
    /\ [](\A g \in GroupNames, t \in Threads :
             (InStartGroup(t) /\ req[t].group = g /\ req[t].isRouted
                   /\ passed[g] = {})
                 => /\ routing[g].replicas = <<>>
                    /\ AssignmentsOf(routing[g], req[t].component) = 1)

\* A routed component was started in a group with no replica, and a first
\* replica has since registered: the assignment has one slice.
C16_Witness ==
    \E g \in GroupNames, t \in Threads :
        /\ Returned(t, "RegisterReplica")
        /\ req[t].group = g
        /\ pids[g] = <<req[t].pid>>
        /\ Len(routing[g].assignments) = 1
        /\ Len(routing[g].assignments[1].slices) = 1
        /\ spawned[g]

\* The ascending list of the addresses of a list of distinct addresses:
\* its i-th element has i - 1 addresses below it.
Ascending(s) ==
    [i \in 1..Len(s) |->
        CHOOSE a \in Range(s) : Cardinality({b \in Range(s) : b < a}) = i - 1]

\* C17: whatever the order in which distinct addresses register with a
\* group that has a routed component, every assignment ends with the slices
\* of the ascending list of the addresses, slice 0 owned by the smallest.
C17_OrderIndependent ==
    order # <<>> =>
        \A n \in DOMAIN routingInfo.assignments :
            /\ routingInfo.assignments[n].slices = SlicesFor(Ascending(order))
            /\ routingInfo.assignments[n].slices[1].replicas = <<Least(order)>>
            /\ routingInfo.assignments[n].slices[1].start = minSliceKey

\* The addresses 2, 1, 3 have registered in that order (b, a, c) with a
\* group of two routed components.
C17_Witness ==
    /\ order = <<2, 1, 3>>
    /\ Len(routingInfo.assignments) = 2

\* The number of accept loops started for a listener name.
AcceptorsOf(l) ==
    Cardinality({n \in DOMAIN acceptors : acceptors[n].listener = l})

\* C18: no listener name ever has two accept loops or a record without its
\* accept loop; the address of a proxy never changes; and the step of
\* ExportListener that finds a proxy for its listener name binds nothing
\* and creates no record, adds the backend of the request to that proxy,
\* and returns the address of the proxy, which the first successful export
\* returned.
C18_OneProxyPerListener ==
    /\ [](\A l \in ListenerNames :
             /\ AcceptorsOf(l) <= 1
             /\ l \in DOMAIN proxies <=> AcceptorsOf(l) = 1
             /\ l \in DOMAIN proxies =>
                   \E n \in DOMAIN acceptors :
                       acceptors[n] = [listener |-> l, addr |-> proxies[l].addr])
    /\ [][\A l \in DOMAIN proxies :
             l \in DOMAIN proxies' /\ proxies'[l].addr = proxies[l].addr]_vars
    /\ [][\A t \in Threads :
             (/\ pc[t] = "el_locked"
              /\ pc'[t] # "el_locked"
              /\ req[t].listener \in DOMAIN proxies)
                 => /\ acceptors' = acceptors
                    /\ lis' = lis
                    /\ proxies' =
                           [proxies EXCEPT ![req[t].listener].backends =
                               @ \cup {req[t].address}]
                    /\ pc'[t] = "idle"
                    /\ ret'[t].status = "nil"
                    /\ ret'[t].error = ""
                    /\ ret'[t].proxyAddress = proxies[req[t].listener].addr]_vars

\* Two exports of one listener with different backends have returned the
\* same address, and the proxy holds both backends.
C18_Witness ==
    \E t1, t2 \in Threads :
        /\ t1 # t2
        /\ Returned(t1, "ExportListener")
        /\ Returned(t2, "ExportListener")
        /\ req[t1].listener = req[t2].listener
        /\ req[t1].address # req[t2].address
        /\ ret[t1].proxyAddress = ret[t2].proxyAddress
        /\ ret[t1].proxyAddress # 0
        /\ proxies[req[t1].listener].backends = {req[t1].address, req[t2].address}

\* C19: the step of ExportListener that follows a net.Listen that failed
\* with address-in-use returns at once, with no other call of net.Listen, a
\* reply with a non-empty error and no error of the call; it creates no
\* proxy record, starts no accept loop and releases b.mu; and b.mu is held
\* by no call that has returned, so that later callbacks are served.
C19_AddressInUse ==
    /\ [][\A t \in Threads :
             (pc[t] = "el_listened" /\ lis[t].err = "inuse" /\ pc'[t] # pc[t])
                 => /\ pc'[t] = "idle"
                    /\ ret'[t].status = "nil"
                    /\ ret'[t].error # ""
                    /\ ret'[t].proxyAddress = 0
                    /\ proxies' = proxies
                    /\ acceptors' = acceptors
                    /\ bmu = t
                    /\ bmu' = Free]_vars
    /\ [](\A t \in Threads : pc[t] = "idle" => bmu # t)

\* An export of a listener got address-in-use, and a later export of the
\* same listener by the other thread has returned the address of a proxy.
C19_Witness ==
    \E t1, t2 \in Threads :
        /\ Returned(t1, "ExportListener")
        /\ ret[t1].error # ""
        /\ Returned(t2, "ExportListener")
        /\ req[t2].listener = req[t1].listener
        /\ ret[t2].proxyAddress # 0
        /\ acceptors = <<[listener |-> req[t1].listener,
                          addr |-> ret[t2].proxyAddress]>>

\* Thread t holds the write lock of a versioned cell across steps (the
\* lock of g.components is taken and released inside one step).
HoldsCell(t) == \E g \in GroupNames : routingLock[g] = t

\* Thread t holds the mutex of a group.
HoldsGroupMutex(t) == \E g \in GroupNames : mu[g] = t

\* The step takes g.mu.Lock() for thread t: in startColocationGroup, or at
\* the end of RegisterReplica.
AcquiresGroupMutex(t) == pc[t] \in {"sg_lock", "rr_pid"} /\ pc'[t] # pc[t]

\* The step takes b.mu.Lock() for thread t: in b.group or ExportListener, as
\* a callback is entered.
AcquiresSupervisorMutex(t) == pc[t] = "idle" /\ pc'[t] # "idle"

\* C20: locks are taken in the order b.mu, g.mu, versioned cell: no thread
\* takes the mutex of a group while it holds the lock of a versioned cell,
\* and no thread takes b.mu while it holds the mutex of a group or the lock
\* of a versioned cell.
C20_LockOrder ==
    [][\A t \in Threads :
          /\ AcquiresGroupMutex(t) => ~HoldsCell(t)
          /\ AcquiresSupervisorMutex(t)
                => ~HoldsCell(t) /\ ~HoldsGroupMutex(t)]_vars

\* ------------------------------------------------------------ C23

\* C23: routingAlgo leaves its arguments as they were: across a call the
\* candidates hold the same addresses in the same order and the previous
\* assignment is unchanged, so the replicas of a routing info stay in the
\* order in which they were registered.
C23_ArgumentsUnchanged ==
    [][/\ candidates' = candidates
       /\ currAssignment' = currAssignment
       /\ routingInfo'.replicas = order']_vars

\* ------------------------------------------------------------ C29

\* lo + (hi - lo)/2 in integers: the floor of the half, without overflow.
IntegerMidPoint(lo, hi) == KeyAdd(lo, Tail(KeySub(hi, lo) \o <<0>>))

OneKey == [p \in 1..KeyBits |-> IF p = 1 THEN 1 ELSE 0] \o <<>>

\* The n-th boundary of the slices: the start of slice n + 1, the end of
\* the key space after the last slice.
Boundary(slices, n) ==
    IF n = Len(slices) THEN maxSliceKey ELSE slices[n + 1].start

\* The bisections that give N slices of one depth: the range from
\* boundary b[1] to boundary b[3] is cut at boundary b[2], for the ranges
\* of 2, 4, ... N slices.
Bisections(N) ==
    {<<i * w, i * w + (w \div 2), (i + 1) * w>> :
        i \in 0..(N - 1), w \in {Pow2(k) : k \in 1..CeilLog2(N)}}
    \cap (0..N) \X (0..N) \X (0..N)

\* C29 as stated: every boundary is the integer midpoint (floor) of the
\* range it bisects, the ranges being bisected breadth-first from
\* [0, 2^64 - 1] so that all slices come from the same depth.
C29_IntegerMidpoints ==
    AlgoReturned /\ Len(newAssignment.slices) >= 2 =>
        LET slices == newAssignment.slices
        IN  \A b \in Bisections(Len(slices)) :
                Boundary(slices, b[2]) =
                    IntegerMidPoint(Boundary(slices, b[1]),
                                    Boundary(slices, b[3]))

\* C29, amended: every boundary is the integer midpoint of the range it
\* bisects or one above it (the half is taken of the float64 of the
\* width, which rounds a width of 2^k - 1 up to 2^k), the ranges being
\* bisected breadth-first from [0, 2^64 - 1] so that all slices come from
\* the same depth; the first boundary is 2^63, one above the integer
\* midpoint 2^63 - 1.
C29_FloatMidpoints ==
    AlgoReturned /\ Len(newAssignment.slices) >= 2 =>
        LET slices == newAssignment.slices
            N == Len(slices)
        IN  /\ N = Pow2(CeilLog2(N))
            /\ \A b \in Bisections(N) :
                  LET mid == IntegerMidPoint(Boundary(slices, b[1]),
                                             Boundary(slices, b[3]))
                  IN  Boundary(slices, b[2]) \in {mid, KeyAdd(mid, OneKey)}
            /\ Boundary(slices, N \div 2) =
                  KeyAdd(IntegerMidPoint(minSliceKey, maxSliceKey), OneKey)

\* routingAlgo has returned eight slices, and the boundary between the
\* last two is one above the integer midpoint of the range they share.
C29_Witness ==
    /\ AlgoReturned
    /\ LET slices == newAssignment.slices
       IN  /\ Len(slices) = 8
           /\ slices[8].start =
                 KeyAdd(IntegerMidPoint(slices[7].start, maxSliceKey), OneKey)

\* ------------------------------------------------------------ C30

\* C30: the step of ExportListener that follows a net.Listen that failed
\* for a reason other than address-in-use returns an error of the call and
\* no reply; it creates no proxy record and starts no accept loop: the
\* proxies are as they were.
C30_OtherBindFailure ==
    [][\A t \in Threads :
          (/\ pc[t] = "el_listened"
           /\ lis[t].err \notin {"", "inuse"}
           /\ pc'[t] # pc[t])
              => /\ pc'[t] = "idle"
                 /\ ret'[t] = Err
                 /\ proxies' = proxies
                 /\ acceptors' = acceptors]_vars

\* An export of a listener has returned an error of the call, and no proxy
\* of that listener exists.
C30_Witness ==
    \E t \in Threads :
        /\ Returned(t, "ExportListener")
        /\ ret[t].status = "err"
        /\ req[t].listener \notin DOMAIN proxies
        /\ AcceptorsOf(req[t].listener) = 0

\* ------------------------------------------------------------ C22

\* C22: the version of a cell moves only when its content does, so that a
\* long poll returns a newer version only with new content: every write
\* section of g.components, and every write section of g.routing that is
\* entered and left in one step, changes the content when it bumps the
\* version. A RegisterReplica of a registered address and a StartComponent
\* of a started component bump no version and wake no reader.
C22_WokenOnlyByChange ==
    [][\A g \in GroupNames :
          /\ (routingLock[g] = Free /\ routingVersion'[g] # routingVersion[g])
                 => routing'[g] # routing[g]
          /\ componentsVersion'[g] # componentsVersion[g]
                 => components'[g] # components[g]]_vars

\* ------------------------------------------------------------ C28

\* C28: in every step the assignments of a group keep their components
\* and their order; the version of each grows by one when a replica is
\* added to the group (which only the step of RegisterReplica that passes
\* the check for a registered address does) and is unchanged otherwise;
\* and an assignment is only ever appended by the update of StartComponent
\* for its component, at version 1.
C28_AssignmentVersion ==
    [][\A g \in GroupNames :
          LET old == routing[g].assignments
              new == routing'[g].assignments
              added == Len(routing'[g].replicas) - Len(routing[g].replicas)
          IN  /\ added \in {0, 1}
              /\ added = 1 =>
                    \E t \in Threads :
                        /\ req[t].op = "RegisterReplica"
                        /\ pc[t] = "rr_lock"
                        /\ pc'[t] = "rr_pid"
                        /\ req[t].address \notin Range(routing[g].replicas)
              /\ Len(new) \in {Len(old), Len(old) + 1}
              /\ \A i \in DOMAIN old :
                    /\ new[i].component = old[i].component
                    /\ new[i].version = old[i].version + added
              /\ \A i \in DOMAIN new \ DOMAIN old :
                    /\ new[i].version = 1
                    /\ \E t \in Threads :
                          /\ req[t].op = "StartComponent"
                          /\ pc[t] = "sc_update"
                          /\ pc'[t] # pc[t]
                          /\ req[t].component = new[i].component]_vars

\* Two replicas have registered after the start of a routed component,
\* whose assignment is at version 3, and every call has returned.
C28_Witness ==
    \E g \in GroupNames :
        /\ Len(routing[g].replicas) = 2
        /\ \E i \in DOMAIN routing[g].assignments :
              routing[g].assignments[i].version = 3
        /\ \A t \in Threads : pc[t] = "idle"

\* ------------------------------------------------------------ C21

\* The step is thread t's call of e.ReadMetrics, of e.RunProfiling (through
\* tool.ProfileGroups) or of proxy.AddBackend.
InvokesReadMetrics(t) == pc[t] = "rm_loop" /\ locals'[t].i = locals[t].i + 1
InvokesRunProfiling(t) == pc[t] = "pf_run" /\ pc'[t] = "idle"
InvokesAddBackend(t) ==
    pc[t] \in {"el_locked", "el_listened"} /\ proxies' # proxies

\* C21: a thread that invokes an Envelope RPC (ReadMetrics, RunProfiling)
\* or proxy.AddBackend holds, at the call, neither b.mu nor the mutex of a
\* group nor the write lock of a versioned cell.
C21_NoLockAcrossRPC ==
    [][\A t \in Threads :
          (InvokesReadMetrics(t) \/ InvokesRunProfiling(t)
              \/ InvokesAddBackend(t))
              => ~(bmu = t \/ HoldsGroupMutex(t) \/ HoldsCell(t))]_vars

\* ------------------------------------------------------------ C26

\* C26: when Profile returns, RunProfiling has been invoked, for each
\* group copied, exactly once on each envelope of the copy taken of the
\* group's envelopes and on nothing else, the invocations being grouped by
\* group.
C26_ProfileFanOut ==
    \A t \in Threads :
        Returned(t, "Profile") =>
            LET copies == locals[t].envelopes
                profiled == out[t].profiled
            IN  /\ DOMAIN profiled = DOMAIN copies
                /\ \A g \in DOMAIN copies :
                      /\ BagToSet(profiled[g]) = Range(copies[g])
                      /\ \A e \in Range(copies[g]) :
                            CopiesIn(e, profiled[g]) = 1

\* ------------------------------------------------------------ C24

\* C24: the step in which a worker's Run returns spawns nothing and leaves
\* the envelopes, the components, the routing info and every lock as they
\* were, so that callbacks are served as before; and no step leaves a
\* group with more than DefaultReplication workers started.
C24_NoRestart ==
    [][\A g \in GroupNames :
          /\ exited' # exited =>
                /\ envelopes' = envelopes
                /\ nextEnvelope' = nextEnvelope
                /\ components' = components
                /\ routing' = routing
                /\ <<mu, bmu, routingLock>>' = <<mu, bmu, routingLock>>
                /\ pc' = pc
          /\ Len(envelopes'[g]) <= DefaultReplication]_vars

\* ------------------------------------------------------------ C27

\* C27: once the context is cancelled every proxy that is accepting
\* eventually stops, and when the serve task of a proxy returns from the
\* shutdown no request is in flight at the proxy: those in flight have
\* been drained, and the shutdown has returned no error.
C27_GracefulShutdown ==
    /\ \A l \in ListenerNames : (cancelled /\ Serving(l)) ~> ~Serving(l)
    /\ [][\A s \in stopped' \ stopped :
             s.err # "serve" => inflight[s.listener] = 0 /\ s.err = ""]_vars

\* ------------------------------------------------------------ C25

\* The method records held under the last dotted segment of a component's
\* name.
HeldFor(stats, c) ==
    LET name == QualifiedName(c)
        short == name[Len(name)]
    IN  IF short \in DOMAIN stats THEN stats[short] ELSE <<>>

\* A method of a status carries the figures of a record.
SameFigures(method, held) ==
    /\ method.name = held.name
    /\ \A w \in {"minute", "hour", "total"} :
          /\ method[w].numCalls = held[w].numCalls
          /\ method[w].avgLatencyMs = held[w].avgLatencyMs
          /\ method[w].recvKbPerSec = held[w].recvKBPerSec
          /\ method[w].sentKbPerSec = held[w].sentKBPerSec

\* C25: the status a call of Status returns has exactly one component for
\* each pair of a group that existed when the call began and a component
\* in the copy taken of the group's components, which carries the copy
\* taken of the group's pids and one method, with the same figures, for
\* each record held under the component's short name (none when none is
\* held); the copies are the group's components and pids at the time they
\* are taken; and the status has exactly one listener, with name and
\* address, for each proxy record at the time of the return.
C25_StatusJoin ==
    /\ [](\A t \in Threads :
            Returned(t, "Status") =>
                LET cs == locals[t].cs
                    entries == out[t].components
                    pairs == {<<g, c>> : g \in DOMAIN cs, c \in ComponentNames}
                IN  /\ locals[t].todo = {}
                    /\ DOMAIN locals[t].pids = DOMAIN cs
                    /\ \A p \in pairs :
                          LET for == {e \in BagToSet(entries) :
                                         e.group = p[1] /\ e.name = p[2]}
                          IN  IF p[2] \in cs[p[1]]
                              THEN /\ Cardinality(for) = 1
                                   /\ \A e \in for : CopiesIn(e, entries) = 1
                              ELSE for = {}
                    /\ \A e \in BagToSet(entries) :
                          LET held == HeldFor(locals[t].stats, e.name)
                          IN  /\ e.group \in DOMAIN cs
                              /\ e.pids = locals[t].pids[e.group]
                              /\ Len(e.methods) = Len(held)
                              /\ \A n \in DOMAIN held :
                                    SameFigures(e.methods[n], held[n]))
    /\ [][\A t \in Threads :
             /\ (pc[t] = "idle" /\ pc'[t] = "st_components")
                   => locals'[t].todo = DOMAIN groups
             /\ (pc[t] = "st_components" /\ pc'[t] = "st_pids")
                   => /\ locals'[t].group \in locals[t].todo
                      /\ locals'[t].cs[locals'[t].group] =
                            components[locals'[t].group]
             /\ (pc[t] = "st_pids" /\ pc'[t] # pc[t])
                   => locals'[t].pids[locals[t].group] = pids[locals[t].group]
             /\ (pc[t] = "st_listeners" /\ pc'[t] = "idle")
                   => LET listeners == out'[t].listeners
                      IN  /\ \A l \in DOMAIN proxies :
                                CopiesIn([name |-> l, addr |-> proxies[l].addr],
                                         listeners) = 1
                          /\ Cardinality(BagToSet(listeners)) =
                                Cardinality(DOMAIN proxies)]_vars

\* A call of Status has returned a status with one component, which has a
\* method, and one listener.
C25_Witness ==
    \E t \in Threads :
        /\ Returned(t, "Status")
        /\ \E e \in BagToSet(out[t].components) :
              /\ e.methods # <<>>
              /\ e.methods[1].minute.numCalls = 42
        /\ BagToSet(out[t].listeners) # {}

\* ------------------------------------------------------------ C34

\* C34: no step of a call of Status changes the components, the routing
\* info, the envelopes or the pids of a group, or the version of a
\* versioned cell; so it wakes no call blocked in GetComponentsToStart or
\* GetRoutingInfo.
C34_StatusReadOnly ==
    [][\A t \in Threads :
          (pc[t] \in {"st_components", "st_pids", "st_listeners"}
              /\ pc'[t] # pc[t])
              => /\ components' = components
                 /\ routing' = routing
                 /\ envelopes' = envelopes
                 /\ pids' = pids
                 /\ componentsVersion' = componentsVersion
                 /\ routingVersion' = routingVersion]_vars

\* ------------------------------------------------------------ C32

\* A call of RegisterReplica on group g is in progress.
Registering(g) ==
    \E t \in Threads : req[t].group = g /\ pc[t] \in {"rr_lock", "rr_pid"}

\* C32: while no call of RegisterReplica is in progress on a group, the
\* group has as many pids as replicas, the pids being those of the
\* replicas; and at most one call on the group is between its two appends,
\* the group then having one replica more than pids.
C32_PidsParallel ==
    \A g \in GroupNames :
        LET between == {t \in Threads : req[t].group = g /\ pc[t] = "rr_pid"}
        IN  /\ ~Registering(g) =>
                  /\ Len(pids[g]) = Len(routing[g].replicas)
                  /\ Range(pids[g]) =
                        {PidOf(a) : a \in Range(routing[g].replicas)}
            /\ Cardinality(between) <= 1
            /\ between # {} =>
                  Len(routing[g].replicas) = Len(pids[g]) + 1

\* Three calls of RegisterReplica on a group have returned (each has
\* released the write lock of g.routing once, and no component is started):
\* two addresses are registered, one of them twice, and the group has two
\* pids.
C32_Witness ==
    \E g \in GroupNames :
        /\ ~Registering(g)
        /\ components[g] = {}
        /\ routingVersion[g] = 3
        /\ Len(routing[g].replicas) = 2
        /\ Len(pids[g]) = 2

\* ------------------------------------------------------------ C35

\* C35: in the step in which a call of StartComponent returns nil, the
\* group of the call has DefaultReplication envelopes, whether or not
\* another call for the same component is in progress.
C35_StartedWhenReturned ==
    [][\A t \in Threads :
          (/\ req[t].op = "StartComponent"
           /\ pc[t] # "idle"
           /\ pc'[t] = "idle"
           /\ ret'[t].status = "nil")
              => Len(envelopes'[req[t].group]) = DefaultReplication]_vars

\* ------------------------------------------------------------ C36

\* C36: whenever no callback is in progress, every group with a started
\* component has DefaultReplication envelopes: a spawn that failed has
\* left no component recorded as started without its workers.
C36_NoComponentWithoutWorkers ==
    (\A t \in Threads : pc[t] = "idle") =>
        \A g \in GroupNames :
            components[g] # {} => Len(envelopes[g]) = DefaultReplication

\* ------------------------------------------------------------ C31

\* The callbacks in progress that called b.group(name).
Callers(name) == {t \in Threads : pc[t] # "idle" /\ req[t].group = name}

\* C31: group(name) is get or create. Every callback in progress on a name
\* holds the record stored under that name, which is the first and only
\* record allocated for it; and a record stored under a name is never
\* removed from b.groups nor replaced by another.
C31_GetOrCreate ==
    /\ [](\A name \in GroupNames :
             /\ name \in DOMAIN groups => groups[name] = 1
             /\ \A t \in Callers(name) :
                   name \in DOMAIN groups /\ req[t].g = groups[name])
    /\ [][\A name \in DOMAIN groups :
             name \in DOMAIN groups' /\ groups'[name] = groups[name]]_vars

\* Two callbacks are in progress on the same group, a read-only
\* GetRoutingInfo and a StartComponent that has recorded its component.
C31_Witness ==
    \E name \in GroupNames :
        /\ \E t \in Callers(name) : req[t].op = "GetRoutingInfo"
        /\ \E t \in Callers(name) : req[t].op = "StartComponent"
        /\ components[name] # {}
        /\ calls = 2

\* ------------------------------------------------------------ C33

\* Thread t is in a long poll whose cell has no version newer than the one
\* the request presented.
AwaitsNewerVersion(t) ==
    \/ /\ pc[t] = "gri_rlock"
       /\ routingVersion[req[t].group] <= GRIObserved(req[t])
    \/ /\ pc[t] = "gcs_rlock"
       /\ componentsVersion[req[t].group] <= GCSObserved(req[t])

\* C33: no deadlock. Whatever the interleaving of StartComponent,
\* RegisterReplica, GetComponentsToStart, GetRoutingInfo, ExportListener,
\* Status, Metrics and Profile, a call in progress that is not a long poll
\* waiting for a newer version gets its locks and returns in the end.
C33_DeadlockFree ==
    \A t \in Threads :
        (pc[t] # "idle" /\ ~AwaitsNewerVersion(t)) ~> pc[t] = "idle"

\* A RegisterReplica that holds the lock of g.routing waits for g.mu, which
\* another thread holds.
C33_Witness ==
    \E t \in Threads, g \in GroupNames :
        /\ pc[t] = "rr_pid"
        /\ routingLock[g] = t
        /\ mu[g] \notin {Free, t}

====
